---- MODULE Spec2Model ----
(***************************************************************************)
(* AuditedCrudService over GenericCrudService over a MongoDB collection.   *)
(*                                                                         *)
(* The primary collection is the sequence of its documents in natural      *)
(* (insertion) order; the audit collection is the sequence of the audit    *)
(* documents in the order they were inserted (the driver-assigned _id of   *)
(* an audit document is not represented).  Every driver request            *)
(* (findOne, findOneAndUpdate, findOneAndDelete, insertOne) is atomic at   *)
(* the store; a service call is the sequence of its requests, and calls of *)
(* different callers interleave between requests (each `await`).           *)
(*                                                                         *)
(* Values.  An ObjectId is <<"oid", n>>, its 24-digit hex string is        *)
(* <<"hex", n>>, a string that is not a valid hex encoding is <<"bad", 0>>.*)
(* A document is a record whose field set varies ($unset removes a field). *)
(* An element of an array field is a record: a primitive p is [prim |-> p],*)
(* an object is the record of its fields.  A field path "a.b.c" is the     *)
(* sequence <<"a","b","c">> of its dot-separated segments.  A query, a     *)
(* $set / $unset operand and a patch are functions from paths to values;   *)
(* an update is a function from operator names to operands; options are a  *)
(* function from option names to values.                                   *)
(*                                                                         *)
(* Two specifications.  Spec: callers of the AuditedCrudService, whose     *)
(* calls are several requests long and interleave.  GenericSpec: calls on  *)
(* the plain GenericCrudService, one request each, on a client that        *)
(* connects and disconnects.                                               *)
(***************************************************************************)
EXTENDS Integers, Sequences, FiniteSets, TLC

\* ---------------------------------------------------------------- bounds
Procs == {1, 2}
MaxCalls == 1
MaxTime == 2
MaxId == 7
MaxOps == 2

\* ------------------------------------------------------------- constants
CREATE == "CREATE"
UPDATE == "UPDATE"
REMOVE == "REMOVE"
ANONYMOUS == "Anonymous"
creationDateField == "createdAt"
modificationDateField == "lastModifiedAt"
collectionName == "cats"

\* JS null / undefined, and the empty object {}
Null == [null |-> TRUE]
Undefined == [undefined |-> TRUE]
UNDEFINED == "<undefined>"
EmptyObj == <<>>
ArrayFields == {"likes"}

Oid(n) == <<"oid", n>>
Hex(n) == <<"hex", n>>
BadId == <<"bad", 0>>
\* an identifier argument the caller left out, and an ObjectId made by
\* new ObjectId() outside the store's allocation (store ids start at 1)
MissingId == <<"undefined", 0>>
FreshOid == Oid(0)

\* Object.assign(target, source): the source's keys win
Assign(target, source) == source @@ target

\* obj[name] = v on a document, adding the field when absent
SetField(doc, name, v) == [k \in (DOMAIN doc) \cup {name} |-> IF k = name THEN v ELSE doc[k]]
\* delete obj[name]
DelField(doc, name) == [k \in (DOMAIN doc) \ {name} |-> doc[k]]

IsObject(e) == "prim" \notin DOMAIN e

\* --------------------------------------------------------- identifiers
\* new ObjectId(x): a valid hex string decodes to its ObjectId, anything
\* else throws
verifyId(id) ==
  IF id[1] = "oid" THEN [ok |-> TRUE, id |-> id]
  ELSE IF id[1] = "hex" THEN [ok |-> TRUE, id |-> Oid(id[2])]
  ELSE IF id[1] = "undefined" THEN [ok |-> TRUE, id |-> Oid(0)]
  ELSE [ok |-> FALSE, id |-> id]

\* as verifyId; new ObjectId(undefined) makes a fresh ObjectId, one that no
\* stored document or element carries
generateObjectId(id) ==
  IF id[1] = "oid" THEN [ok |-> TRUE, id |-> id]
  ELSE IF id[1] = "hex" THEN [ok |-> TRUE, id |-> Oid(id[2])]
  ELSE IF id = MissingId THEN [ok |-> TRUE, id |-> FreshOid]
  ELSE [ok |-> FALSE, id |-> id]

\* ------------------------------------------------- the store: matching
\* an array element satisfies {g: val}
ElemHas(e, g, val) == IsObject(e) /\ g \in DOMAIN e /\ e[g] = val

\* an array element satisfies a condition document {g: val, ...} (a record)
ElemMatches(e, cond) == \A g \in DOMAIN cond : ElemHas(e, g, cond[g])

MatchKey(doc, path, val) ==
  IF Len(path) = 1
  THEN /\ path[1] \in DOMAIN doc
       /\ IF path[1] \in ArrayFields
          THEN \E i \in 1..Len(doc[path[1]]) :
                 ~IsObject(doc[path[1]][i]) /\ doc[path[1]][i].prim = val
          ELSE doc[path[1]] = val
  ELSE IF Len(path) = 2
  THEN /\ path[1] \in DOMAIN doc
       /\ path[1] \in ArrayFields
       /\ \E i \in 1..Len(doc[path[1]]) : ElemHas(doc[path[1]][i], path[2], val)
  ELSE FALSE

Matches(doc, query) == \A k \in DOMAIN query : MatchKey(doc, k, query[k])

\* the query's conditions on elements of array field f: keys "f.g"
ArrayKeys(query, f) == {k \in DOMAIN query : Len(k) = 2 /\ k[1] = f}

\* The index the positional operator "$" stands for: the first element of f
\* that satisfies the query's condition on f; 0 when the query has none.
\* When the query holds several conditions on f the store binds "$" to the
\* first element satisfying ONE of them, and which one is not specified: it
\* is the condition on the element field `positional`.
PosFields == {"name", "_id"}
VARIABLE positional

PosIndex(doc, query, f) ==
  IF ArrayKeys(query, f) = {} \/ f \notin DOMAIN doc THEN 0
  ELSE LET keys == ArrayKeys(query, f)
           k == IF \E j \in keys : j[2] = positional
                THEN CHOOSE j \in keys : j[2] = positional
                ELSE CHOOSE j \in keys : TRUE
           hits == {i \in 1..Len(doc[f]) : ElemHas(doc[f][i], k[2], query[k])}
       IN IF hits = {} THEN 0 ELSE CHOOSE i \in hits : \A j \in hits : i <= j

\* indexes of the matching documents, and the one a find-one request
\* selects: the first in natural order, or the first in the sort order
MatchingIdx(coll, query) == {i \in 1..Len(coll) : Matches(coll[i], query)}

Selected(coll, query, options) ==
  LET hits == MatchingIdx(coll, query)
  IN IF hits = {} THEN 0
     ELSE IF "sort" \in DOMAIN options /\ options["sort"] = "idDesc"
     THEN CHOOSE i \in hits : \A j \in hits : coll[j]._id[2] <= coll[i]._id[2]
     ELSE CHOOSE i \in hits : \A j \in hits : i <= j

\* collection.findOne(query)
findOne(coll, query) ==
  LET i == Selected(coll, query, EmptyObj)
  IN IF i = 0 THEN Null ELSE coll[i]

\* ------------------------------------------- the store: update operators
\* {$set: {path: val}} on one path; pos is the index "$" stands for
SetPath(doc, path, val, pos) ==
  IF Len(path) = 1 THEN SetField(doc, path[1], val)
  ELSE [doc EXCEPT ![path[1]] = [@ EXCEPT ![pos] = SetField(@, path[3], val)]]

\* a path the store can assign: a top-level field, or "f.$.g" with "$"
\* bound to an object element of f
SetPathOk(doc, path, pos) ==
  \/ Len(path) = 1
  \/ /\ Len(path) = 3 /\ path[2] = "$"
     /\ path[1] \in DOMAIN doc /\ path[1] \in ArrayFields
     /\ pos \in 1..Len(doc[path[1]])
     /\ IsObject(doc[path[1]][pos])

RECURSIVE ApplySet(_, _, _)
ApplySet(doc, s, pos) ==
  IF DOMAIN s = {} THEN doc
  ELSE LET k == CHOOSE k \in DOMAIN s : TRUE
       IN ApplySet(SetPath(doc, k, s[k], pos), [j \in (DOMAIN s) \ {k} |-> s[j]], pos)

\* an $unset the store ignores
ApplyUnset_Keep(doc, s) == doc

RECURSIVE ApplyUnset(_, _)
ApplyUnset(doc, s) ==
  IF DOMAIN s = {} THEN doc
  ELSE LET k == CHOOSE k \in DOMAIN s : TRUE
       IN ApplyUnset(DelField(doc, k[1]), [j \in (DOMAIN s) \ {k} |-> s[j]])

\* {$push: {f: e}} appends e to array f (creating f when absent)
RECURSIVE ApplyPush(_, _)
ApplyPush(doc, s) ==
  IF DOMAIN s = {} THEN doc
  ELSE LET k == CHOOSE k \in DOMAIN s : TRUE
           old == IF k[1] \in DOMAIN doc THEN doc[k[1]] ELSE <<>>
       IN ApplyPush(SetField(doc, k[1], Append(old, s[k])), [j \in (DOMAIN s) \ {k} |-> s[j]])

\* an element is pulled by a condition document if it is an object that
\* satisfies it, by a primitive if it equals it
Pulled(e, c) ==
  IF IsObject(c) THEN ElemMatches(e, c)
  ELSE ~IsObject(e) /\ e.prim = c.prim

\* a $pull that stops at the first element it removes
RECURSIVE Without_First(_, _)
Without_First(arr, c) ==
  IF arr = <<>> THEN <<>>
  ELSE IF Pulled(Head(arr), c) THEN Tail(arr)
  ELSE <<Head(arr)>> \o Without_First(Tail(arr), c)

RECURSIVE Without(_, _)
Without(arr, c) ==
  IF arr = <<>> THEN <<>>
  ELSE IF Pulled(Head(arr), c) THEN Without(Tail(arr), c)
  ELSE <<Head(arr)>> \o Without(Tail(arr), c)

\* {$pull: {f: c}} removes every element of f that c selects
RECURSIVE ApplyPull(_, _)
ApplyPull(doc, s) ==
  IF DOMAIN s = {} THEN doc
  ELSE LET k == CHOOSE k \in DOMAIN s : TRUE
           d2 == IF k[1] \in DOMAIN doc THEN SetField(doc, k[1], Without(doc[k[1]], s[k])) ELSE doc
       IN ApplyPull(d2, [j \in (DOMAIN s) \ {k} |-> s[j]])

Operand(update, op) == IF op \in DOMAIN update THEN update[op] ELSE EmptyObj

UpdateOk(doc, update, pos) ==
  \A k \in DOMAIN Operand(update, "$set") : SetPathOk(doc, k, pos)

ApplyUpdate(doc, update, pos) ==
  ApplyPull(ApplyPush(ApplySet(ApplyUnset(doc, Operand(update, "$unset")),
                               Operand(update, "$set"), pos),
                      Operand(update, "$push")),
            Operand(update, "$pull"))

\* ------------------------------------------------ the store: requests
\* Each request yields [err, value, coll]: whether the store rejected it,
\* the value of the response, and the collection afterwards.

\* collection.insertOne(document): the driver assigns _id; ops[0] is the
\* stored document
insertOne(coll, document, id) ==
  LET stored == SetField(document, "_id", id)
  IN [err |-> FALSE, value |-> stored, coll |-> Append(coll, stored)]

\* the driver returns the original document unless returnOriginal is false
ReturnOriginal(options) ==
  IF "returnOriginal" \in DOMAIN options THEN options["returnOriginal"] ELSE TRUE

\* a findOneAndUpdate that inserts the update's $set fields when no
\* document matches
findOneAndUpdate_Upsert(coll, query, update, options) ==
  LET i == Selected(coll, query, options)
  IN IF i = 0
     THEN [err |-> FALSE, value |-> Null,
           coll |-> Append(coll, ApplySet([_id |-> FreshOid], Operand(update, "$set"), 0))]
     ELSE LET pos == PosIndex(coll[i], query, "likes")
          IN IF ~UpdateOk(coll[i], update, pos)
             THEN [err |-> TRUE, value |-> Null, coll |-> coll]
             ELSE LET after == ApplyUpdate(coll[i], update, pos)
                  IN [err |-> FALSE,
                      value |-> IF ReturnOriginal(options) THEN coll[i] ELSE after,
                      coll |-> [coll EXCEPT ![i] = after]]

\* collection.findOneAndUpdate(query, update, options)
findOneAndUpdate(coll, query, update, options) ==
  LET i == Selected(coll, query, options)
  IN IF i = 0 THEN [err |-> FALSE, value |-> Null, coll |-> coll]
     ELSE LET pos == PosIndex(coll[i], query, "likes")
          IN IF ~UpdateOk(coll[i], update, pos)
             THEN [err |-> TRUE, value |-> Null, coll |-> coll]
             ELSE LET after == ApplyUpdate(coll[i], update, pos)
                  IN [err |-> FALSE,
                      value |-> IF ReturnOriginal(options) THEN coll[i] ELSE after,
                      coll |-> [coll EXCEPT ![i] = after]]

\* a findOneAndDelete that returns the document and leaves it stored
findOneAndDelete_Keep(coll, query, options) ==
  LET i == Selected(coll, query, options)
  IN IF i = 0 THEN [err |-> FALSE, value |-> Null, coll |-> coll]
     ELSE [err |-> FALSE, value |-> coll[i], coll |-> coll]

\* collection.findOneAndDelete(query, options)
findOneAndDelete(coll, query, options) ==
  LET i == Selected(coll, query, options)
  IN IF i = 0 THEN [err |-> FALSE, value |-> Null, coll |-> coll]
     ELSE [err |-> FALSE, value |-> coll[i],
           coll |-> SubSeq(coll, 1, i - 1) \o SubSeq(coll, i + 1, Len(coll))]

\* ------------------------------------------------- GenericCrudService
\* an update reduced to its stamped $set: the other operators dropped
Stamp_SetOnly(update, t) ==
  ("$set" :> ((<<modificationDateField>> :> t) @@ Operand(update, "$set")))

\* update.$set[modificationDateField] = new Date(), creating $set if absent
Stamp(update, t) ==
  ("$set" :> ((<<modificationDateField>> :> t) @@ Operand(update, "$set"))) @@ update

\* a patch that keeps the keys whose value is undefined
Clean_None(data) == data

\* patch's cleaning loop: delete the keys whose value is undefined
Clean(data) == [k \in {j \in DOMAIN data : data[j] # UNDEFINED} |-> data[k]]

\* a create that stores the document without the creation timestamp
super_create_NoStamp(coll, document, t, id) == insertOne(coll, document, id)

super_create(coll, document, t, id) ==
  insertOne(coll, SetField(document, creationDateField, t), id)

super_update(coll, query, update, options, t) ==
  findOneAndUpdate(coll, query, Stamp(update, t),
                   Assign(("returnOriginal" :> FALSE), options))

\* the update patch hands to the store: {$set: data}, data cleaned and stamped
PatchUpdate(data, t) == ("$set" :> ((<<modificationDateField>> :> t) @@ Clean(data)))

super_patch(coll, query, data, options, t) ==
  findOneAndUpdate(coll, query, PatchUpdate(data, t),
                   Assign(("returnOriginal" :> FALSE), options))

super_remove(coll, query, options) ==
  findOneAndDelete(coll, query, Assign(EmptyObj, options))

\* -------------------------------------------------- AuditedCrudService
\* A call in progress.  pc is the request the call issues next: "pre" the
\* pre-image findOne, "mutate" the wrapped mutation, "audit" the audit
\* insertOne; "done" once the promise has settled, when the arguments of the
\* call are gone.  entry, affected, audited, pre, post and reqs are history
\* fields: the public method called, whether the mutation touched a
\* document, the positions of the audit documents this call inserted, the
\* mutated document as it was in the store just before and just after the
\* mutation, and the requests the call has issued, in order.
Idle ==
  [pc |-> "idle", entry |-> "", op |-> "", query |-> EmptyObj,
   data |-> EmptyObj, options |-> EmptyObj, user |-> "", oldDoc |-> Null,
   newDoc |-> Null, result |-> Undefined, status |-> "", err |-> "",
   affected |-> FALSE, audited |-> <<>>, pre |-> Null, post |-> Null,
   reqs |-> <<>>]

\* the promise of call c settles: fulfilled with value v / rejected with e
Fulfil(c, v) ==
  [c EXCEPT !.pc = "done", !.status = "ok", !.result = v, !.query = EmptyObj,
            !.data = EmptyObj, !.options = EmptyObj, !.user = ""]
Reject(c, e) ==
  [c EXCEPT !.pc = "done", !.status = "error", !.err = e, !.query = EmptyObj,
            !.data = EmptyObj, !.options = EmptyObj, !.user = ""]

\* a call rejected before any request (a throw in the synchronous prefix)
Thrown(e) == Reject(Idle, e)

\* a default parameter: user = this.ANONYMOUS
Default(user) == IF user = UNDEFINED THEN ANONYMOUS ELSE user

IdQuery(id) == (<<"_id">> :> id)

create(document, user) ==
  [Idle EXCEPT !.pc = "mutate", !.entry = "create", !.op = "create",
               !.data = document, !.user = Default(user)]

patch(query, data, options, user) ==
  [Idle EXCEPT !.pc = "pre", !.entry = "patch", !.op = "patch", !.query = query,
               !.data = data, !.options = options, !.user = Default(user)]

\* patchById without the normalization of the identifier
patchById_Raw(id, data, options, user) == patch(IdQuery(id), data, options, user)

patchById(id, data, options, user) ==
  LET r == generateObjectId(id)
  IN IF ~r.ok THEN Thrown("InvalidObjectId")
     ELSE patch(IdQuery(r.id), data, options, user)

update(query, upd, options, user) ==
  [Idle EXCEPT !.pc = "pre", !.entry = "update", !.op = "update", !.query = query,
               !.data = upd, !.options = options, !.user = Default(user)]

updateById(id, upd, options, user) ==
  LET r == generateObjectId(id)
  IN IF ~r.ok THEN Thrown("InvalidObjectId")
     ELSE update(IdQuery(r.id), upd, Assign(("returnOriginal" :> FALSE), options), user)

remove(query, options, user) ==
  [Idle EXCEPT !.pc = "mutate", !.entry = "remove", !.op = "remove", !.query = query,
               !.options = options, !.user = Default(user)]

removeById(id, options, user) ==
  LET r == generateObjectId(id)
  IN IF ~r.ok THEN Thrown("InvalidObjectId")
     ELSE remove(IdQuery(r.id), options, user)

\* assert(x) on an identifier / a field name / a value
Given(id) == id # MissingId
GivenField(f) == f # ""
\* assert(v) passes on a truthy value: not undefined, not the empty string
GivenValue(v) == v # Undefined /\ v # [prim |-> ""]

\* data["_id"] = new ObjectId() when data is an object
WithId(data, id) == IF IsObject(data) THEN SetField(data, "_id", id) ELSE data

addSubdocument(id, embeddedField, data, options, user, newId) ==
  IF ~(Given(id) /\ GivenField(embeddedField) /\ GivenValue(data))
  THEN Thrown("AssertionError")
  ELSE updateById(id, ("$push" :> (<<embeddedField>> :> WithId(data, newId))),
                  Assign(EmptyObj, options), user)

\* key.startsWith(`${embeddedField}.`) and key.startsWith(`${embeddedField}.$.`)
HasFieldPrefix(k, f) == Len(k) >= 2 /\ k[1] = f
HasPosPrefix(k, f) == Len(k) >= 3 /\ k[1] = f /\ k[2] = "$"

\* a renaming loop that prefixes every key
RewriteQuery_All(query, f) ==
  [k \in {<<f>> \o j : j \in DOMAIN query} |-> query[Tail(k)]]

\* the two renaming loops of patchSubdocument: a key without the prefix is
\* re-inserted under the prefixed name (overwriting what was there)
RewriteQuery(query, f) ==
  LET plain == {k \in DOMAIN query : ~HasFieldPrefix(k, f)}
      kept == {k \in DOMAIN query : HasFieldPrefix(k, f)}
  IN [k \in kept \cup {<<f>> \o j : j \in plain} |->
        IF \E j \in plain : <<f>> \o j = k
        THEN query[CHOOSE j \in plain : <<f>> \o j = k]
        ELSE query[k]]

RewriteData(data, f) ==
  LET plain == {k \in DOMAIN data : ~HasPosPrefix(k, f)}
      kept == {k \in DOMAIN data : HasPosPrefix(k, f)}
  IN [k \in kept \cup {<<f, "$">> \o j : j \in plain} |->
        IF \E j \in plain : <<f, "$">> \o j = k
        THEN data[CHOOSE j \in plain : <<f, "$">> \o j = k]
        ELSE data[k]]

patchSubdocument(id, embeddedField, query, data, options, user) ==
  LET r == generateObjectId(id)
  IN IF ~r.ok THEN Thrown("InvalidObjectId")
     ELSE patch(IdQuery(r.id) @@ RewriteQuery(query, embeddedField),
                RewriteData(data, embeddedField), options, user)

patchSubdocumentById(id, embeddedField, embedId, data, options, user) ==
  IF ~Given(embedId) THEN Thrown("AssertionError")
  ELSE LET e == generateObjectId(embedId)
       IN IF ~e.ok THEN Thrown("InvalidObjectId")
          ELSE patchSubdocument(id, embeddedField, IdQuery(e.id), data, options, user)

removeSubdocument(id, embeddedField, query, options, user) ==
  IF ~(Given(id) /\ GivenField(embeddedField) /\ GivenValue(query))
  THEN Thrown("AssertionError")
  ELSE updateById(id, ("$pull" :> (<<embeddedField>> :> query)),
                  Assign(EmptyObj, options), user)

removeSubdocumentById(id, embeddedField, embedId, options, user) ==
  IF ~Given(embedId) THEN Thrown("AssertionError")
  ELSE LET e == generateObjectId(embedId)
       IN IF ~e.ok THEN Thrown("InvalidObjectId")
          ELSE removeSubdocument(id, embeddedField, [_id |-> e.id], options, user)

\* ------------------------------------------------ the store: reads
\* the documents of a sequence by descending _id
RECURSIVE SortIdDesc(_)
SortIdDesc(docs) ==
  IF docs = <<>> THEN <<>>
  ELSE LET i == CHOOSE i \in 1..Len(docs) : \A j \in 1..Len(docs) : docs[j]._id[2] <= docs[i]._id[2]
       IN <<docs[i]>> \o SortIdDesc(SubSeq(docs, 1, i - 1) \o SubSeq(docs, i + 1, Len(docs)))

\* a projection {f: 1, ...}: the named fields and _id; {} keeps every field
Project(doc, projection) ==
  IF DOMAIN projection = {} THEN doc
  ELSE [k \in (DOMAIN doc) \cap ({"_id"} \cup {j[1] : j \in DOMAIN projection}) |-> doc[k]]

\* collection.find(query, {limit, skip, sort, projection}).toArray();
\* limit 0 is no limit
find(coll, query, limit, skip, sort, projection) ==
  LET hits == SelectSeq(coll, LAMBDA d : Matches(d, query))
      ordered == IF sort = "idDesc" THEN SortIdDesc(hits) ELSE hits
      last_ == IF limit = 0 \/ skip + limit > Len(ordered) THEN Len(ordered) ELSE skip + limit
      page == SubSeq(ordered, skip + 1, last_)
  IN [i \in 1..Len(page) |-> Project(page[i], projection)]

\* collection.countDocuments(query)
countDocuments(coll, query) == Cardinality(MatchingIdx(coll, query))

\* a $filter condition that holds of every element
FilterCond_Any(e, cond, as) == TRUE

\* {$eq: ["$$<var>.<field>", value]} on an array element; {} holds of any
FilterCond(e, cond, as) ==
  \/ DOMAIN cond = {}
  \/ ElemHas(e, cond.field, cond.value)

\* the aggregation [{$match: {_id}}, {$project: {f: {$filter: ...}}}]:
\* [err, value]; a condition naming a variable other than `as` is rejected,
\* $filter of a missing field is null (has is FALSE)
aggregate(coll, id, f, as, cond) ==
  LET hits == SelectSeq(coll, LAMBDA d : d._id = id)
  IN IF DOMAIN cond # {} /\ cond.var # as THEN [err |-> TRUE, value |-> <<>>]
     ELSE [err |-> FALSE,
           value |-> [i \in 1..Len(hits) |->
                        IF f \in DOMAIN hits[i]
                        THEN [_id |-> hits[i]._id, has |-> TRUE,
                              items |-> SelectSeq(hits[i][f], LAMBDA e : FilterCond(e, cond, as))]
                        ELSE [_id |-> hits[i]._id, has |-> FALSE, items |-> <<>>]]]

\* the array cut down to the last element satisfying cond
findOneElemMatch_Last(coll, id, f, cond) ==
  LET hits == {i \in 1..Len(coll) :
                 /\ coll[i]._id = id /\ f \in DOMAIN coll[i]
                 /\ \E j \in 1..Len(coll[i][f]) : ElemMatches(coll[i][f][j], cond)}
  IN IF hits = {} THEN Null
     ELSE LET i == CHOOSE i \in hits : \A k \in hits : i <= k
              js == {j \in 1..Len(coll[i][f]) : ElemMatches(coll[i][f][j], cond)}
              j == CHOOSE j \in js : \A k \in js : k <= j
          IN [_id |-> coll[i]._id, items |-> <<coll[i][f][j]>>]

\* findOne({_id, f: {$elemMatch: cond}}, {projection: {f: 1, "f.$": 1}}): the
\* parent with its array cut down to the first element satisfying cond
findOneElemMatch(coll, id, f, cond) ==
  LET hits == {i \in 1..Len(coll) :
                 /\ coll[i]._id = id /\ f \in DOMAIN coll[i]
                 /\ \E j \in 1..Len(coll[i][f]) : ElemMatches(coll[i][f][j], cond)}
  IN IF hits = {} THEN Null
     ELSE LET i == CHOOSE i \in hits : \A k \in hits : i <= k
              js == {j \in 1..Len(coll[i][f]) : ElemMatches(coll[i][f][j], cond)}
              j == CHOOSE j \in js : \A k \in js : j <= k
          IN [_id |-> coll[i]._id, items |-> <<coll[i][f][j]>>]

\* ---------------------------------- GenericCrudService: the public methods
\* The outcome of a call: how its promise settled (status, err, result), the
\* collection afterwards, the store requests it issued, the update document
\* it handed to the store (if any), and whether verifyConnection passed.
\* A result that is not a document is wrapped: [items |-> array],
\* [count |-> n], [bool |-> b].
Returned(value, coll, reqs, sent) ==
  [status |-> "ok", err |-> "", result |-> value, coll |-> coll, reqs |-> reqs,
   sent |-> sent, verified |-> TRUE]
Raised(e, coll, verified) ==
  [status |-> "error", err |-> e, result |-> Undefined, coll |-> coll, reqs |-> <<>>,
   sent |-> EmptyObj, verified |-> verified]

\* verifyConnection passes iff the client is connected
verifyConnection(conn) == conn

Generic_list(conn, coll, query, limit, skip, sort, projection) ==
  IF ~verifyConnection(conn) THEN Raised("ClientNotConnected", coll, FALSE)
  ELSE Returned([items |-> find(coll, query, limit, skip, sort, projection)],
                coll, <<"find">>, EmptyObj)

Generic_count(conn, coll, query) ==
  IF ~verifyConnection(conn) THEN Raised("ClientNotConnected", coll, FALSE)
  ELSE Returned([count |-> countDocuments(coll, query)], coll, <<"countDocuments">>, EmptyObj)

\* exists without its two asserts
Generic_exists_NoAssert(conn, coll, query) ==
  IF ~verifyConnection(conn) THEN Raised("ClientNotConnected", coll, FALSE)
  ELSE Returned([bool |-> findOne(coll, query) # Null], coll, <<"findOne">>, EmptyObj)

\* assert(typeof query === "object"); assert(Object.keys(query).length > 0)
Generic_exists(conn, coll, query) ==
  IF ~verifyConnection(conn) THEN Raised("ClientNotConnected", coll, FALSE)
  ELSE IF <<UNDEFINED>> \in DOMAIN query THEN Raised("AssertionError", coll, TRUE)
  ELSE IF DOMAIN query = {} THEN Raised("AssertionError", coll, TRUE)
  ELSE Returned([bool |-> findOne(coll, query) # Null], coll, <<"findOne">>, EmptyObj)

Generic_create(conn, coll, document, t, id) ==
  IF ~verifyConnection(conn) THEN Raised("ClientNotConnected", coll, FALSE)
  ELSE LET r == super_create(coll, document, t, id)
       IN Returned(r.value, r.coll, <<"insertOne">>, EmptyObj)

Generic_get(conn, coll, query, projection) ==
  IF ~verifyConnection(conn) THEN Raised("ClientNotConnected", coll, FALSE)
  ELSE LET d == findOne(coll, query)
       IN Returned(IF d = Null THEN Null ELSE Project(d, projection),
                   coll, <<"findOne">>, EmptyObj)

Generic_getById(conn, coll, id, projection) ==
  IF ~verifyConnection(conn) THEN Raised("ClientNotConnected", coll, FALSE)
  ELSE IF ~verifyId(id).ok THEN Raised("InvalidObjectId", coll, TRUE)
  ELSE LET d == findOne(coll, IdQuery(verifyId(id).id))
       IN Returned(IF d = Null THEN Null ELSE Project(d, projection),
                   coll, <<"findOne">>, EmptyObj)

Generic_update(conn, coll, query, upd, options, t) ==
  IF ~verifyConnection(conn) THEN Raised("ClientNotConnected", coll, FALSE)
  ELSE LET r == super_update(coll, query, upd, options, t)
       IN IF r.err THEN [Raised("MongoError", coll, TRUE) EXCEPT !.reqs = <<"findOneAndUpdate">>]
          ELSE Returned(r.value, r.coll, <<"findOneAndUpdate">>, Stamp(upd, t))

Generic_updateById(conn, coll, id, upd, options, t) ==
  IF ~verifyConnection(conn) THEN Raised("ClientNotConnected", coll, FALSE)
  ELSE IF ~verifyId(id).ok THEN Raised("InvalidObjectId", coll, TRUE)
  ELSE Generic_update(conn, coll, IdQuery(verifyId(id).id), upd,
                      Assign(("returnOriginal" :> FALSE), options), t)

Generic_patch(conn, coll, query, data, options, t) ==
  IF ~verifyConnection(conn) THEN Raised("ClientNotConnected", coll, FALSE)
  ELSE LET r == super_patch(coll, query, data, options, t)
       IN IF r.err THEN [Raised("MongoError", coll, TRUE) EXCEPT !.reqs = <<"findOneAndUpdate">>]
          ELSE Returned(r.value, r.coll, <<"findOneAndUpdate">>, PatchUpdate(data, t))

Generic_patchById(conn, coll, id, data, options, t) ==
  IF ~verifyConnection(conn) THEN Raised("ClientNotConnected", coll, FALSE)
  ELSE IF ~verifyId(id).ok THEN Raised("InvalidObjectId", coll, TRUE)
  ELSE Generic_patch(conn, coll, IdQuery(verifyId(id).id), data, options, t)

Generic_remove(conn, coll, query, options) ==
  IF ~verifyConnection(conn) THEN Raised("ClientNotConnected", coll, FALSE)
  ELSE LET r == super_remove(coll, query, options)
       IN Returned(r.value, r.coll, <<"findOneAndDelete">>, EmptyObj)

Generic_removeById(conn, coll, id, options) ==
  IF ~verifyConnection(conn) THEN Raised("ClientNotConnected", coll, FALSE)
  ELSE IF ~verifyId(id).ok THEN Raised("InvalidObjectId", coll, TRUE)
  ELSE Generic_remove(conn, coll, IdQuery(verifyId(id).id), options)

\* const [object] = objects; object[embeddedField].length throws on null
Generic_listSubdocuments(conn, coll, id, embeddedField, as, cond) ==
  IF ~verifyConnection(conn) THEN Raised("ClientNotConnected", coll, FALSE)
  ELSE IF ~verifyId(id).ok THEN Raised("InvalidObjectId", coll, TRUE)
  ELSE LET r == aggregate(coll, verifyId(id).id, embeddedField, as, cond)
       IN IF r.err THEN [Raised("MongoError", coll, TRUE) EXCEPT !.reqs = <<"aggregate">>]
          ELSE IF r.value = <<>> THEN Returned(Null, coll, <<"aggregate">>, EmptyObj)
          ELSE IF ~r.value[1].has
          THEN [Raised("TypeError", coll, TRUE) EXCEPT !.reqs = <<"aggregate">>]
          ELSE Returned(IF Len(r.value[1].items) > 0 THEN [items |-> r.value[1].items] ELSE Null,
                        coll, <<"aggregate">>, EmptyObj)

\* verifyId runs before this.get, which verifies the connection; the
\* caller's projection only adds fields of the parent, and the result is the
\* element alone
Generic_getSubdocument(conn, coll, id, embeddedField, cond) ==
  IF ~verifyId(id).ok THEN Raised("InvalidObjectId", coll, FALSE)
  ELSE IF ~verifyConnection(conn) THEN Raised("ClientNotConnected", coll, FALSE)
  ELSE LET object == findOneElemMatch(coll, verifyId(id).id, embeddedField, cond)
       IN Returned(IF object # Null /\ Len(object.items) > 0 THEN object.items[1] ELSE Null,
                   coll, <<"findOne">>, EmptyObj)

\* the asserts run before updateById, which verifies the connection
Generic_addSubdocument(conn, coll, id, embeddedField, data, options, t, newId) ==
  IF ~(Given(id) /\ GivenField(embeddedField) /\ GivenValue(data))
  THEN Raised("AssertionError", coll, FALSE)
  ELSE Generic_updateById(conn, coll, id,
                          ("$push" :> (<<embeddedField>> :> WithId(data, newId))),
                          Assign(EmptyObj, options), t)

Generic_patchSubdocument(conn, coll, id, embeddedField, query, data, options, t) ==
  IF ~verifyId(id).ok THEN Raised("InvalidObjectId", coll, FALSE)
  ELSE Generic_patch(conn, coll,
                     IdQuery(verifyId(id).id) @@ RewriteQuery(query, embeddedField),
                     RewriteData(data, embeddedField), options, t)

Generic_patchSubdocumentById(conn, coll, id, embeddedField, embedId, data, options, t) ==
  IF ~Given(embedId) THEN Raised("AssertionError", coll, FALSE)
  ELSE IF ~verifyId(embedId).ok THEN Raised("InvalidObjectId", coll, FALSE)
  ELSE Generic_patchSubdocument(conn, coll, id, embeddedField,
                                IdQuery(verifyId(embedId).id), data, options, t)

Generic_removeSubdocument(conn, coll, id, embeddedField, query, options, t) ==
  IF ~(Given(id) /\ GivenField(embeddedField) /\ GivenValue(query))
  THEN Raised("AssertionError", coll, FALSE)
  ELSE Generic_updateById(conn, coll, id, ("$pull" :> (<<embeddedField>> :> query)),
                          Assign(EmptyObj, options), t)

Generic_removeSubdocumentById(conn, coll, id, embeddedField, embedId, options, t) ==
  IF ~Given(embedId) THEN Raised("AssertionError", coll, FALSE)
  ELSE IF ~verifyId(embedId).ok THEN Raised("InvalidObjectId", coll, FALSE)
  ELSE Generic_removeSubdocument(conn, coll, id, embeddedField,
                                 [_id |-> verifyId(embedId).id], options, t)

\* a CREATE audit document that also carries an old field
CreateAudit_WithOld(c, t) ==
  [collection |-> collectionName, operation |-> CREATE, old |-> c.oldDoc,
   new |-> c.newDoc, user |-> c.user, timestamp |-> t]

\* the audit documents handed to _generate_audit
CreateAudit(c, t) ==
  [collection |-> collectionName, operation |-> CREATE, new |-> c.newDoc,
   user |-> c.user, timestamp |-> t]

\* an UPDATE audit document whose old is the Record as the mutation found it
UpdateAudit_Fresh(c, t) ==
  [collection |-> collectionName, operation |-> UPDATE, old |-> c.pre,
   new |-> c.newDoc, user |-> c.user, timestamp |-> t]

UpdateAudit(c, t) ==
  [collection |-> collectionName, operation |-> UPDATE, old |-> c.oldDoc,
   new |-> c.newDoc, user |-> c.user, timestamp |-> t]

\* a REMOVE audit document built like an UPDATE one
RemoveAudit_WithNew(c, t) ==
  [collection |-> collectionName, operation |-> REMOVE, old |-> c.newDoc,
   new |-> c.newDoc, user |-> c.user, timestamp |-> t]

RemoveAudit(c, t) ==
  [collection |-> collectionName, operation |-> REMOVE, old |-> c.newDoc,
   user |-> c.user, timestamp |-> t]

AuditDoc(c, t) ==
  IF c.op = "create" THEN CreateAudit(c, t)
  ELSE IF c.op = "remove" THEN RemoveAudit(c, t)
  ELSE UpdateAudit(c, t)

\* this.auditCollection.insertOne(data)
generate_audit(auds, data) == Append(auds, data)

\* the pre-image lookup followed at once by the audit insert
PreImageStep_SkipMutation(c, coll) ==
  [c EXCEPT !.pc = "audit", !.oldDoc = findOne(coll, c.query),
            !.reqs = Append(@, "findOne")]

\* the pre-image lookup without the early return
PreImageStep_NoReturn(c, coll) ==
  [c EXCEPT !.pc = "mutate", !.oldDoc = findOne(coll, c.query),
            !.reqs = Append(@, "findOne")]

\* const oldDoc = await this.collection.findOne(query); if (!oldDoc) return;
PreImageStep(c, coll) ==
  LET oldDoc == findOne(coll, c.query)
  IN IF oldDoc = Null
     THEN [Fulfil(c, Undefined) EXCEPT !.reqs = Append(@, "findOne")]
     ELSE [c EXCEPT !.pc = "mutate", !.oldDoc = oldDoc, !.reqs = Append(@, "findOne")]

\* the wrapped mutation of the call: [err, value, coll]
Wrapped(c, coll, t, id) ==
  IF c.op = "create" THEN super_create(coll, c.data, t, id)
  ELSE IF c.op = "update" THEN super_update(coll, c.query, c.data, c.options, t)
  ELSE IF c.op = "patch" THEN super_patch(coll, c.query, c.data, c.options, t)
  ELSE super_remove(coll, c.query, c.options)

\* the driver request the wrapped mutation issues
Request(c) ==
  IF c.op = "create" THEN "insertOne"
  ELSE IF c.op = "remove" THEN "findOneAndDelete"
  ELSE "findOneAndUpdate"

\* the document the wrapped mutation acts on (0: none), for the history
Target(c, coll) ==
  IF c.op = "create" THEN 0 ELSE Selected(coll, c.query, c.options)

\* const newDoc = await super.<op>(...): the call after the response
MutateStep(c, coll, t, id) ==
  LET r == Wrapped(c, coll, t, id)
      i == Target(c, coll)
  IN IF r.err
     THEN [Reject(c, "MongoError") EXCEPT !.reqs = Append(@, Request(c))]
     ELSE [c EXCEPT !.pc = "audit", !.newDoc = r.value,
                    !.reqs = Append(@, Request(c)),
                    !.affected = (c.op = "create" \/ i # 0),
                    !.pre = IF i = 0 THEN Null ELSE coll[i],
                    !.post = IF c.op = "create" THEN r.value
                             ELSE IF i = 0 \/ c.op = "remove" THEN Null
                             ELSE r.coll[i]]

\* await this._generate_audit({...}); return newDoc;
AuditStep(c, auds) ==
  [Fulfil(c, c.newDoc) EXCEPT !.audited = Append(@, Len(auds) + 1),
                              !.reqs = Append(@, "audit.insertOne")]

\* the rejection of the audit insertOne caught and dropped
AuditThrow_Swallowed(c) ==
  [Fulfil(c, c.newDoc) EXCEPT !.reqs = Append(@, "audit.insertOne")]

\* the audit insertOne rejected: the await throws out of the method
AuditThrow(c) ==
  [Reject(c, "AuditInsertError") EXCEPT !.reqs = Append(@, "audit.insertOne")]

\* ---------------------------------------------------------------- inputs
InitialCats ==
  << [_id |-> Oid(1), name |-> "Blacky",
      likes |-> << [_id |-> Oid(3), name |-> "games"], [_id |-> Oid(4), name |-> "music"] >>],
     [_id |-> Oid(2), name |-> "Blacky", likes |-> << >>] >>
\* the store has allocated one ObjectId per document and element so far
FirstFreeId == Len(InitialCats) + Len(InitialCats[1].likes) + Len(InitialCats[2].likes) + 1

\* Caller 1 draws its arguments from the full sets; caller 2, the concurrent
\* writer, addresses document 1 by its ObjectId with default options.
Documents == {[name |-> "foo"]}
Queries(p) ==
  IF p = 1 THEN {IdQuery(Oid(1)), IdQuery(Oid(9)), (<<"name">> :> "Blacky")}
  ELSE {IdQuery(Oid(1))}
Updates == {("$unset" :> (<<"name">> :> ""))}
Patches == {(<<"name">> :> "Tom") @@ (<<"type">> :> UNDEFINED)}
Options(p) ==
  IF p = 1 THEN {EmptyObj, ("returnOriginal" :> TRUE), ("sort" :> "idDesc")}
  ELSE {EmptyObj}
IdOptions(p) == IF p = 1 THEN {EmptyObj, ("returnOriginal" :> TRUE)} ELSE {EmptyObj}
User(p) == IF p = 1 THEN UNDEFINED ELSE "alice"
Ids(p) == IF p = 1 THEN {Oid(1), Hex(1), Hex(9), BadId} ELSE {Oid(1)}
EmbedIds(p) == IF p = 1 THEN {Oid(3), Hex(4), MissingId} ELSE {Oid(3)}
Subdocuments == {[prim |-> "jazz"], [name |-> "games"]}
ElementQueries(p) ==
  IF p = 1 THEN {(<<"name">> :> "games"), (<<"name">> :> "rats")}
  ELSE {(<<"name">> :> "games")}
ElementPatches == {(<<"name">> :> "trouble")}
PullQueries == {[name |-> "games"], [prim |-> "jazz"]}

\* the arguments of the calls on the plain service, where they differ from
\* caller 1's above
GDocuments == {[name |-> "foo"], [name |-> "bar", createdAt |-> 0]}
GUpdates ==
  {("$unset" :> (<<"name">> :> "")),
   ("$unset" :> (<<"name">> :> "")) @@
     ("$set" :> ((<<"type">> :> "ugly") @@ (<<modificationDateField>> :> 0)))}
GIds == {Oid(1), Hex(2), Hex(9), BadId, MissingId}
GEmbedIds == {Oid(3), Hex(4), BadId, MissingId}
GSubdocuments == {[prim |-> "jazz"], [prim |-> ""], [name |-> "games"], Undefined}
GPullQueries == {[name |-> "games"], [prim |-> "jazz"], Undefined}
\* element queries on one field, on two fields, with a key already rooted at
\* the array field, and with a key in both shapes
GElementQueries ==
  ElementQueries(1) \cup
  {(<<"name">> :> "games") @@ (<<"_id">> :> Oid(4)),
   (<<"name">> :> "games") @@ (<<"_id">> :> Oid(5)),
   (<<"likes", "name">> :> "games"),
   (<<"name">> :> "rats") @@ (<<"likes", "name">> :> "games")}
GElementPatches ==
  ElementPatches \cup {(<<"likes", "$", "name">> :> "fun") @@ (<<"rank">> :> "top")}
\* exists() called without its argument: undefined, in the shape of a query
MissingQuery == (<<UNDEFINED>> :> UNDEFINED)

\* no call made yet on the plain service
NoCall ==
  [op |-> "", args |-> EmptyObj, connected |-> TRUE, before |-> <<>>, t |-> 0,
   status |-> "", err |-> "", result |-> Undefined, reqs |-> <<>>, sent |-> EmptyObj]

\* ----------------------------------------------------------------- state
\* collection, audits: the two collections of the store.  call, calls: the
\* audited calls in flight and how many each caller has made.  now: the
\* clock.  nextId: the next ObjectId to be generated.  connected: whether the
\* MongoClient is connected; database: whether the service holds its
\* database and collection handles (this.database is not null).  last, ops:
\* the latest call on the plain GenericCrudService with its outcome, and how
\* many such calls have been made.  positional: the element field whose
\* condition this store binds "$" to when a query constrains several.
VARIABLES collection, audits, call, calls, now, nextId, connected, database, last, ops
vars == <<collection, audits, call, calls, now, nextId, connected, database, last, ops,
          positional>>

Init ==
  /\ collection = InitialCats
  /\ audits = << >>
  /\ call = [p \in Procs |-> Idle]
  /\ calls = [p \in Procs |-> 0]
  /\ now = 1
  /\ nextId = FirstFreeId
  /\ connected = TRUE
  /\ database = TRUE
  /\ last = NoCall
  /\ ops = 0
  \* the element queries of the audited calls constrain one field: the
  \* binding of "$" is the same under either value
  /\ positional = "name"

CanCall(p) == call[p].pc \in {"idle", "done"} /\ calls[p] < MaxCalls

\* caller p invokes a public method: the synchronous prefix of the method
\* runs up to its first request
Invoke(p, name, c) ==
  /\ call' = [call EXCEPT ![p] = [c EXCEPT !.entry = name]]
  /\ calls' = [calls EXCEPT ![p] = @ + 1]
  /\ UNCHANGED <<collection, audits, now>>
  /\ UNCHANGED <<connected, database, last, ops, positional>>

Create(p) ==
  /\ CanCall(p)
  /\ \E d \in Documents : Invoke(p, "create", create(d, User(p)))
  /\ UNCHANGED nextId

Update(p) ==
  /\ CanCall(p)
  /\ \E q \in Queries(p), d \in Updates, o \in Options(p) :
       Invoke(p, "update", update(q, d, o, User(p)))
  /\ UNCHANGED nextId

UpdateById(p) ==
  /\ CanCall(p)
  /\ \E i \in Ids(p), d \in Updates, o \in IdOptions(p) :
       Invoke(p, "updateById", updateById(i, d, o, User(p)))
  /\ UNCHANGED nextId

Patch(p) ==
  /\ CanCall(p)
  /\ \E q \in Queries(p), d \in Patches, o \in Options(p) :
       Invoke(p, "patch", patch(q, d, o, User(p)))
  /\ UNCHANGED nextId

PatchById(p) ==
  /\ CanCall(p)
  /\ \E i \in Ids(p), d \in Patches, o \in IdOptions(p) :
       Invoke(p, "patchById", patchById(i, d, o, User(p)))
  /\ UNCHANGED nextId

Remove(p) ==
  /\ CanCall(p)
  /\ \E q \in Queries(p), o \in Options(p) :
       Invoke(p, "remove", remove(q, o, User(p)))
  /\ UNCHANGED nextId

RemoveById(p) ==
  /\ CanCall(p)
  /\ \E i \in Ids(p), o \in {EmptyObj} :
       Invoke(p, "removeById", removeById(i, o, User(p)))
  /\ UNCHANGED nextId

AddSubdocument(p) ==
  /\ CanCall(p)
  /\ nextId <= MaxId
  /\ \E i \in Ids(p), d \in Subdocuments, o \in IdOptions(p) :
       /\ Invoke(p, "addSubdocument", addSubdocument(i, "likes", d, o, User(p), Oid(nextId)))
       /\ nextId' = IF IsObject(d) THEN nextId + 1 ELSE nextId

PatchSubdocument(p) ==
  /\ CanCall(p)
  /\ \E i \in Ids(p), q \in ElementQueries(p), d \in ElementPatches, o \in IdOptions(p) :
       Invoke(p, "patchSubdocument", patchSubdocument(i, "likes", q, d, o, User(p)))
  /\ UNCHANGED nextId

PatchSubdocumentById(p) ==
  /\ CanCall(p)
  /\ \E i \in Ids(p), e \in EmbedIds(p), d \in ElementPatches, o \in IdOptions(p) :
       Invoke(p, "patchSubdocumentById", patchSubdocumentById(i, "likes", e, d, o, User(p)))
  /\ UNCHANGED nextId

RemoveSubdocument(p) ==
  /\ CanCall(p)
  /\ \E i \in Ids(p), q \in PullQueries, o \in IdOptions(p) :
       Invoke(p, "removeSubdocument", removeSubdocument(i, "likes", q, o, User(p)))
  /\ UNCHANGED nextId

RemoveSubdocumentById(p) ==
  /\ CanCall(p)
  /\ \E i \in Ids(p), e \in EmbedIds(p), o \in IdOptions(p) :
       Invoke(p, "removeSubdocumentById", removeSubdocumentById(i, "likes", e, o, User(p)))
  /\ UNCHANGED nextId

\* the store serves the pre-image findOne of p's call
PreImage(p) ==
  /\ call[p].pc = "pre"
  /\ call' = [call EXCEPT ![p] = PreImageStep(call[p], collection)]
  /\ UNCHANGED <<collection, audits, calls, now, nextId>>
  /\ UNCHANGED <<connected, database, last, ops, positional>>

\* the store serves the wrapped mutation of p's call
Mutate(p) ==
  /\ call[p].pc = "mutate"
  /\ call[p].op = "create" => nextId <= MaxId
  /\ LET r == Wrapped(call[p], collection, now, Oid(nextId))
     IN /\ collection' = r.coll
        /\ call' = [call EXCEPT ![p] = MutateStep(call[p], collection, now, Oid(nextId))]
        /\ nextId' = IF call[p].op = "create" THEN nextId + 1 ELSE nextId
  /\ UNCHANGED <<audits, calls, now>>
  /\ UNCHANGED <<connected, database, last, ops, positional>>

\* the store serves the audit insertOne of p's call
Audit(p) ==
  /\ call[p].pc = "audit"
  /\ audits' = generate_audit(audits, AuditDoc(call[p], now))
  /\ call' = [call EXCEPT ![p] = AuditStep(call[p], audits)]
  /\ UNCHANGED <<collection, calls, now, nextId>>
  /\ UNCHANGED <<connected, database, last, ops, positional>>

\* the store rejects the audit insertOne of p's call
AuditFail(p) ==
  /\ call[p].pc = "audit"
  /\ call' = [call EXCEPT ![p] = AuditThrow(call[p])]
  /\ UNCHANGED <<collection, audits, calls, now, nextId>>
  /\ UNCHANGED <<connected, database, last, ops, positional>>

\* time passes
Tick ==
  /\ now < MaxTime
  /\ now' = now + 1
  /\ UNCHANGED <<collection, audits, call, calls, nextId>>
  /\ UNCHANGED <<connected, database, last, ops, positional>>

Next ==
  \/ \E p \in Procs : Create(p)
  \/ \E p \in Procs : Update(p)
  \/ \E p \in Procs : UpdateById(p)
  \/ \E p \in Procs : Patch(p)
  \/ \E p \in Procs : PatchById(p)
  \/ \E p \in Procs : Remove(p)
  \/ \E p \in Procs : RemoveById(p)
  \/ \E p \in Procs : AddSubdocument(p)
  \/ \E p \in Procs : PatchSubdocument(p)
  \/ \E p \in Procs : PatchSubdocumentById(p)
  \/ \E p \in Procs : RemoveSubdocument(p)
  \/ \E p \in Procs : RemoveSubdocumentById(p)
  \/ \E p \in Procs : PreImage(p)
  \/ \E p \in Procs : Mutate(p)
  \/ \E p \in Procs : Audit(p)
  \/ \E p \in Procs : AuditFail(p)
  \/ Tick

Spec == Init /\ [][Next]_vars

\* ---------------------------------------- calls on GenericCrudService
\* Every method of the plain service issues at most one store request, and
\* the store serves a request atomically: a call is one step, from the
\* invocation to the settling of its promise.

\* the call `name` with arguments args has had outcome r
Served(name, args, r) ==
  /\ collection' = r.coll
  /\ database' = (database \/ r.verified)
  /\ last' = [op |-> name, args |-> args, connected |-> connected, before |-> collection,
              t |-> now, status |-> r.status, err |-> r.err, result |-> r.result,
              reqs |-> r.reqs, sent |-> r.sent]
  /\ ops' = ops + 1
  /\ UNCHANGED <<now, connected>>
  /\ UNCHANGED <<audits, call, calls, positional>>

CallList ==
  /\ ops < MaxOps
  /\ \E q \in Queries(1) \cup {EmptyObj}, pg \in {<<0, 0>>, <<1, 1>>},
        so \in {"", "idDesc"}, pr \in {EmptyObj, (<<"name">> :> 1)} :
       Served("list", [query |-> q, limit |-> pg[1], skip |-> pg[2], sort |-> so, projection |-> pr],
              Generic_list(connected, collection, q, pg[1], pg[2], so, pr))
  /\ UNCHANGED nextId

CallCount ==
  /\ ops < MaxOps
  /\ \E q \in Queries(1) \cup {EmptyObj} :
       Served("count", [query |-> q], Generic_count(connected, collection, q))
  /\ UNCHANGED nextId

CallExists ==
  /\ ops < MaxOps
  /\ \E q \in Queries(1) \cup {EmptyObj, MissingQuery} :
       Served("exists", [query |-> q], Generic_exists(connected, collection, q))
  /\ UNCHANGED nextId

CallCreate ==
  /\ ops < MaxOps
  /\ nextId <= MaxId
  /\ \E d \in GDocuments :
       Served("create", [document |-> d],
              Generic_create(connected, collection, d, now, Oid(nextId)))
  /\ nextId' = IF connected THEN nextId + 1 ELSE nextId

CallGet ==
  /\ ops < MaxOps
  /\ \E q \in Queries(1), pr \in {EmptyObj, (<<"name">> :> 1)} :
       Served("get", [query |-> q, projection |-> pr],
              Generic_get(connected, collection, q, pr))
  /\ UNCHANGED nextId

CallGetById ==
  /\ ops < MaxOps
  /\ \E i \in GIds, pr \in {EmptyObj, (<<"name">> :> 1)} :
       Served("getById", [id |-> i, projection |-> pr],
              Generic_getById(connected, collection, i, pr))
  /\ UNCHANGED nextId

CallUpdate ==
  /\ ops < MaxOps
  /\ \E q \in Queries(1), d \in GUpdates, o \in Options(1) :
       Served("update", [query |-> q, update |-> d, options |-> o],
              Generic_update(connected, collection, q, d, o, now))
  /\ UNCHANGED nextId

CallUpdateById ==
  /\ ops < MaxOps
  /\ \E i \in GIds, d \in GUpdates, o \in IdOptions(1) :
       Served("updateById", [id |-> i, update |-> d, options |-> o],
              Generic_updateById(connected, collection, i, d, o, now))
  /\ UNCHANGED nextId

CallPatch ==
  /\ ops < MaxOps
  /\ \E q \in Queries(1), d \in Patches, o \in Options(1) :
       Served("patch", [query |-> q, data |-> d, options |-> o],
              Generic_patch(connected, collection, q, d, o, now))
  /\ UNCHANGED nextId

CallPatchById ==
  /\ ops < MaxOps
  /\ \E i \in GIds, d \in Patches, o \in IdOptions(1) :
       Served("patchById", [id |-> i, data |-> d, options |-> o],
              Generic_patchById(connected, collection, i, d, o, now))
  /\ UNCHANGED nextId

CallRemove ==
  /\ ops < MaxOps
  /\ \E q \in Queries(1), o \in Options(1) :
       Served("remove", [query |-> q, options |-> o],
              Generic_remove(connected, collection, q, o))
  /\ UNCHANGED nextId

CallRemoveById ==
  /\ ops < MaxOps
  /\ \E i \in GIds, o \in IdOptions(1) :
       Served("removeById", [id |-> i, options |-> o],
              Generic_removeById(connected, collection, i, o))
  /\ UNCHANGED nextId

CallListSubdocuments ==
  /\ ops < MaxOps
  /\ \E i \in GIds, a \in {"item", "like"},
        c \in {EmptyObj, [var |-> "item", field |-> "name", value |-> "games"]} :
       Served("listSubdocuments", [id |-> i, embeddedField |-> "likes", as |-> a, query |-> c],
              Generic_listSubdocuments(connected, collection, i, "likes", a, c))
  /\ UNCHANGED nextId

CallGetSubdocument ==
  /\ ops < MaxOps
  /\ \E i \in GIds,
        c \in {[name |-> "games"], [name |-> "rats"], [name |-> "games", _id |-> Oid(5)]} :
       Served("getSubdocument", [id |-> i, embeddedField |-> "likes", query |-> c],
              Generic_getSubdocument(connected, collection, i, "likes", c))
  /\ UNCHANGED nextId

\* new ObjectId() is generated when data is an object, whether or not the
\* update then goes through
CallAddSubdocument ==
  /\ ops < MaxOps
  /\ nextId <= MaxId
  /\ \E i \in GIds, f \in {"likes", ""}, d \in GSubdocuments, o \in IdOptions(1) :
       /\ Served("addSubdocument", [id |-> i, embeddedField |-> f, data |-> d, options |-> o],
                 Generic_addSubdocument(connected, collection, i, f, d, o, now, Oid(nextId)))
       /\ nextId' = IF Given(i) /\ GivenField(f) /\ GivenValue(d) /\ IsObject(d)
                    THEN nextId + 1 ELSE nextId

CallPatchSubdocument ==
  /\ ops < MaxOps
  /\ \E i \in GIds, q \in GElementQueries, d \in GElementPatches, o \in IdOptions(1) :
       Served("patchSubdocument",
              [id |-> i, embeddedField |-> "likes", query |-> q, data |-> d, options |-> o],
              Generic_patchSubdocument(connected, collection, i, "likes", q, d, o, now))
  /\ UNCHANGED nextId

CallPatchSubdocumentById ==
  /\ ops < MaxOps
  /\ \E i \in GIds, e \in GEmbedIds, d \in ElementPatches, o \in IdOptions(1) :
       Served("patchSubdocumentById",
              [id |-> i, embeddedField |-> "likes", embedId |-> e, data |-> d, options |-> o],
              Generic_patchSubdocumentById(connected, collection, i, "likes", e, d, o, now))
  /\ UNCHANGED nextId

CallRemoveSubdocument ==
  /\ ops < MaxOps
  /\ \E i \in GIds, q \in GPullQueries, o \in IdOptions(1) :
       Served("removeSubdocument",
              [id |-> i, embeddedField |-> "likes", query |-> q, options |-> o],
              Generic_removeSubdocument(connected, collection, i, "likes", q, o, now))
  /\ UNCHANGED nextId

CallRemoveSubdocumentById ==
  /\ ops < MaxOps
  /\ \E i \in GIds, e \in GEmbedIds, o \in IdOptions(1) :
       Served("removeSubdocumentById",
              [id |-> i, embeddedField |-> "likes", embedId |-> e, options |-> o],
              Generic_removeSubdocumentById(connected, collection, i, "likes", e, o, now))
  /\ UNCHANGED nextId

\* the application connects / closes the MongoClient
Connect ==
  /\ ~connected
  /\ connected' = TRUE
  /\ UNCHANGED <<collection, now, nextId, database, last, ops>>
  /\ UNCHANGED <<audits, call, calls, positional>>

Disconnect ==
  /\ connected
  /\ connected' = FALSE
  /\ UNCHANGED <<collection, now, nextId, database, last, ops>>
  /\ UNCHANGED <<audits, call, calls, positional>>

\* the service is constructed on a client that may not be connected yet
GenericInit ==
  /\ collection = InitialCats
  /\ audits = << >>
  /\ call = [p \in Procs |-> Idle]
  /\ calls = [p \in Procs |-> 0]
  /\ now = 1
  /\ nextId = FirstFreeId
  /\ connected \in BOOLEAN
  /\ database = connected
  /\ last = NoCall
  /\ ops = 0
  /\ positional \in PosFields

GenericNext ==
  \/ CallList
  \/ CallCount
  \/ CallExists
  \/ CallCreate
  \/ CallGet
  \/ CallGetById
  \/ CallUpdate
  \/ CallUpdateById
  \/ CallPatch
  \/ CallPatchById
  \/ CallRemove
  \/ CallRemoveById
  \/ CallListSubdocuments
  \/ CallGetSubdocument
  \/ CallAddSubdocument
  \/ CallPatchSubdocument
  \/ CallPatchSubdocumentById
  \/ CallRemoveSubdocument
  \/ CallRemoveSubdocumentById
  \/ Connect
  \/ Disconnect
  \/ Tick

GenericSpec == GenericInit /\ [][GenericNext]_vars

GenericTypeOK ==
  /\ ops \in 0..MaxOps
  /\ last.status \in {"", "ok", "error"}
  /\ last.status = "ok" => database

TypeOK ==
  /\ now \in 1..MaxTime
  /\ \A p \in Procs : call[p].pc \in {"idle", "pre", "mutate", "audit", "done"}

\* ================================================================ claims
Settled(p) == call[p].pc = "done" /\ call[p].status = "ok"
\* the audit document call c inserted
AuditOf(c) == audits[c.audited[1]]
\* call c read a pre-image (update / patch / subdocument forms)
HadPreImage(c) == c.oldDoc # Null

\* C1 (as claimed): after a fulfilled audited update or patch on an existing
\* Record the call has inserted exactly one audit document; it is an UPDATE
\* whose old is the Record as it was just before the mutation and whose new
\* is the Record just after it, which the call returns.
C1_UpdateAuditHasPreAndPostImage ==
  \A p \in Procs :
    (Settled(p) /\ call[p].entry \in {"update", "patch"} /\ HadPreImage(call[p]))
      => /\ Len(call[p].audited) = 1
         /\ AuditOf(call[p]).operation = UPDATE
         /\ AuditOf(call[p]).old = call[p].pre
         /\ AuditOf(call[p]).new = call[p].post
         /\ call[p].result = call[p].post

\* C2: after a fulfilled audited create the call has inserted exactly one
\* audit document; it is a CREATE with no old field whose new is the stored
\* Record the call returns, identifier and creation timestamp included.
C2_CreateAudit ==
  \A p \in Procs :
    (Settled(p) /\ call[p].entry = "create")
      => /\ Len(call[p].audited) = 1
         /\ AuditOf(call[p]).operation = CREATE
         /\ AuditOf(call[p]).new = call[p].result
         /\ "old" \notin DOMAIN AuditOf(call[p])
         /\ call[p].result = call[p].post
         /\ {"_id", creationDateField} \subseteq DOMAIN call[p].result

C2_Witness ==
  \E p \in Procs : Settled(p) /\ call[p].entry = "create" /\ Len(audits) >= 1

\* C3: after a fulfilled audited remove / removeById that deleted a Record
\* the call has inserted exactly one audit document; it is a REMOVE with no
\* new field whose old is the removed Record, which the call returns.
C3_RemoveAudit ==
  \A p \in Procs :
    (Settled(p) /\ call[p].entry \in {"remove", "removeById"} /\ call[p].affected)
      => /\ Len(call[p].audited) = 1
         /\ AuditOf(call[p]).operation = REMOVE
         /\ AuditOf(call[p]).old = call[p].result
         /\ call[p].result = call[p].pre
         /\ call[p].result # Null
         /\ "new" \notin DOMAIN AuditOf(call[p])

C3_Witness ==
  \E p \in Procs :
    Settled(p) /\ call[p].entry = "removeById" /\ call[p].affected
      /\ call[p].result._id = Oid(1)

\* C4 (as claimed): an audited remove whose filter matches no Record (the
\* wrapped remove returned null) inserts no audit document.
C4_NoAuditWhenNothingRemoved ==
  \A p \in Procs :
    (call[p].pc = "done" /\ call[p].entry \in {"remove", "removeById"}
       /\ call[p].reqs # <<>> /\ ~call[p].affected)
      => call[p].audited = <<>> /\ "audit.insertOne" \notin {call[p].reqs[i] : i \in DOMAIN call[p].reqs}

\* C5 (as claimed): every audit document has the fields of its operation:
\* CREATE a new Record and no old, REMOVE an old Record and no new, UPDATE
\* both an old and a new Record (present and not null).
HasRecord(a, f) == f \in DOMAIN a /\ a[f] # Null /\ a[f] # Undefined
C5_AuditShape ==
  \A i \in 1..Len(audits) :
    /\ audits[i].operation = CREATE => HasRecord(audits[i], "new") /\ "old" \notin DOMAIN audits[i]
    /\ audits[i].operation = REMOVE => HasRecord(audits[i], "old") /\ "new" \notin DOMAIN audits[i]
    /\ audits[i].operation = UPDATE => HasRecord(audits[i], "old") /\ HasRecord(audits[i], "new")

\* C6: an audited update or patch whose pre-image lookup finds no Record
\* issues that lookup and nothing else (no mutation, no audit insert), and
\* is fulfilled with undefined.
NoPreImage(c) ==
  /\ c.pc = "done" /\ c.entry \in {"update", "patch"}
  /\ c.reqs # <<>> /\ c.oldDoc = Null
C6_NoPreImageNoWrite ==
  \A p \in Procs :
    NoPreImage(call[p])
      => /\ call[p].reqs = <<"findOne">>
         /\ call[p].status = "ok"
         /\ call[p].result = Undefined
         /\ ~call[p].affected
         /\ call[p].audited = <<>>

C6_Witness ==
  \E p \in Procs : NoPreImage(call[p]) /\ call[p].entry = "patch" /\ audits = <<>>
                     /\ collection = InitialCats

\* C7 (as claimed): a fulfilled call has inserted exactly one audit document
\* if its mutation inserted, changed or deleted a Record, and none if its
\* mutation affected no Record.
C7_OneAuditPerWrite ==
  \A p \in Procs :
    Settled(p) => Len(call[p].audited) = (IF call[p].affected THEN 1 ELSE 0)

\* C8: the step in which the audit insert of a call fails rejects the call
\* with the insert's error, leaves the primary collection as the mutation
\* left it (no rollback), adds no audit document and is not retried: it is
\* the call's only audit request and the call is over.
C8_AuditFailureIsFatal ==
  [][\A p \in Procs :
       (call[p].pc = "audit" /\ call'[p].pc = "done" /\ audits' = audits)
         => /\ call'[p].status = "error"
            /\ call'[p].err = "AuditInsertError"
            /\ collection' = collection
            /\ call'[p].audited = <<>>
            /\ call'[p].affected = call[p].affected
            /\ call'[p].reqs = Append(call[p].reqs, "audit.insertOne")
            /\ Len(call[p].reqs) = (IF call[p].op \in {"update", "patch"} THEN 2 ELSE 1)]_vars

C8_Witness ==
  \E p \in Procs :
    /\ call[p].pc = "done" /\ call[p].err = "AuditInsertError"
    /\ call[p].entry = "create" /\ call[p].affected
    /\ \E i \in 1..Len(collection) : collection[i] = call[p].post
    /\ audits = <<>>

\* C9 (as claimed): a fulfilled audited subdocument mutation on an existing
\* parent inserts exactly one audit document, an UPDATE whose old is the
\* parent just before the array change and whose new is the parent just
\* after it: one element longer after add, the same length with at most the
\* one matching element changed after patch, no longer after remove.
SubEntries ==
  {"addSubdocument", "patchSubdocument", "patchSubdocumentById",
   "removeSubdocument", "removeSubdocumentById"}
C9_SubdocumentAudit ==
  \A p \in Procs :
    (Settled(p) /\ call[p].entry \in SubEntries /\ HadPreImage(call[p]))
      => /\ Len(call[p].audited) = 1
         /\ AuditOf(call[p]).operation = UPDATE
         /\ AuditOf(call[p]).old = call[p].pre
         /\ AuditOf(call[p]).new = call[p].post
         /\ call[p].entry = "addSubdocument"
              => Len(AuditOf(call[p]).new.likes) = Len(AuditOf(call[p]).old.likes) + 1
         /\ call[p].entry \in {"patchSubdocument", "patchSubdocumentById"}
              => /\ Len(AuditOf(call[p]).new.likes) = Len(AuditOf(call[p]).old.likes)
                 /\ Cardinality({i \in 1..Len(AuditOf(call[p]).new.likes) :
                       AuditOf(call[p]).new.likes[i] # AuditOf(call[p]).old.likes[i]}) <= 1
         /\ call[p].entry \in {"removeSubdocument", "removeSubdocumentById"}
              => Len(AuditOf(call[p]).new.likes) <= Len(AuditOf(call[p]).old.likes)

\* C10: updateById, patchById and removeById with a valid identifier, native
\* or string, behave as update, patch and remove with {_id: normalized id}:
\* run to completion from any reachable store, both forms settle alike
\* (same result, same status) and leave the same collection and the same
\* audit documents.  The stores are those of the states with no call in
\* flight: a call in flight that has written nothing leaves the store as if
\* it had not been invoked, and one that awaits its audit insert leaves it
\* as if that insert had failed.
Run(c, coll, auds, t, id) ==
  LET c1 == IF c.pc = "pre" THEN PreImageStep(c, coll) ELSE c
  IN IF c1.pc = "done" THEN [call |-> c1, coll |-> coll, auds |-> auds]
     ELSE LET c2 == MutateStep(c1, coll, t, id)
          IN IF c2.pc = "done" THEN [call |-> c2, coll |-> coll, auds |-> auds]
             ELSE [call |-> AuditStep(c2, auds), coll |-> Wrapped(c1, coll, t, id).coll,
                   auds |-> generate_audit(auds, AuditDoc(c2, t))]

RunHere(c) == Run(c, collection, audits, now, Oid(nextId))

Quiescent == \A p \in Procs : call[p].pc \in {"idle", "done"}

C10_ByIdDelegates ==
  \A i \in Ids(1) :
    (Quiescent /\ generateObjectId(i).ok) =>
      LET q == IdQuery(generateObjectId(i).id)
      IN /\ \A d \in Updates, o \in IdOptions(1) :
              RunHere(updateById(i, d, o, User(1))) = RunHere(update(q, d, o, User(1)))
         /\ \A d \in Patches, o \in IdOptions(1) :
              RunHere(patchById(i, d, o, User(1))) = RunHere(patch(q, d, o, User(1)))
         /\ RunHere(removeById(i, EmptyObj, User(1))) = RunHere(remove(q, EmptyObj, User(1)))

C10_Witness ==
  /\ \E p \in Procs : Settled(p) /\ call[p].entry = "removeById" /\ call[p].affected
  /\ \E p \in Procs : Settled(p) /\ call[p].entry = "create"
  /\ LET r == RunHere(patchById(Hex(5), CHOOSE d \in Patches : TRUE, EmptyObj, User(1)))
     IN /\ r.call.status = "ok"
        /\ Len(r.auds) = Len(audits) + 1
        /\ r.call.result.name = "Tom"
        /\ r.auds[Len(r.auds)].old._id = Oid(5)

\* ------------------------------------------- claims on GenericCrudService
\* the latest call on the plain service was one of `names` and was fulfilled
Fulfilled(names) == last.op \in names /\ last.status = "ok"
\* the caller's options ask the store for the original document
AsksOriginal(o) == "returnOriginal" \in DOMAIN o /\ o["returnOriginal"] = TRUE
\* the position, before the latest call, of the Record the call names by id
\* (0: no such Record)
ParentOf(id) ==
  LET hits == {i \in 1..Len(last.before) : last.before[i]._id = verifyId(id).id}
  IN IF ~verifyId(id).ok \/ hits = {} THEN 0 ELSE CHOOSE i \in hits : TRUE
\* the Records other than the one at position p are as before the call
OthersKept(p) ==
  /\ Len(collection) = Len(last.before)
  /\ \A i \in 1..Len(collection) : i # p => collection[i] = last.before[i]
\* element e satisfies the element query c (a condition document or a primitive)
Sel(e, c) ==
  IF "prim" \in DOMAIN c THEN e = c
  ELSE \A g \in DOMAIN c : g \in DOMAIN e /\ e[g] = c[g]
\* the filter of the latest call: its query, or {_id} of its normalized id
FilterOf(c) ==
  IF "query" \in DOMAIN c.args THEN c.args.query ELSE IdQuery(verifyId(c.args.id).id)

AllOps ==
  {"list", "count", "exists", "create", "get", "getById", "update", "updateById",
   "patch", "patchById", "remove", "removeById", "listSubdocuments", "getSubdocument",
   "addSubdocument", "patchSubdocument", "patchSubdocumentById", "removeSubdocument",
   "removeSubdocumentById"}

\* C11 (as claimed): every public method of the plain service, called while
\* the client is not connected, is rejected with ClientNotConnected, issues
\* no store request and leaves the collection unchanged.
C11_NotConnectedFails ==
  (last.op \in AllOps /\ ~last.connected)
    => /\ last.status = "error"
       /\ last.err = "ClientNotConnected"
       /\ last.reqs = <<>>
       /\ collection = last.before

\* C12 (as claimed): patchSubdocument / patchSubdocumentById on a parent whose
\* array holds elements matching the element query assigns the partial fields
\* to the first matching element only: that element keeps its other fields,
\* every other element, the array's length and its order are as before, and
\* no other Record changes.
\* The element query as a condition on one element, and the partial fields
\* as fields of the element; a key may come rooted at the array field.
ElemCondOf(c) ==
  IF c.op = "patchSubdocument"
  THEN [g \in {k[Len(k)] : k \in DOMAIN c.args.query} |->
          IF <<g>> \in DOMAIN c.args.query THEN c.args.query[<<g>>]
          ELSE c.args.query[<<"likes", g>>]]
  ELSE [_id |-> verifyId(c.args.embedId).id]
Merged(e, data) ==
  [g \in (DOMAIN e) \cup {k[Len(k)] : k \in DOMAIN data} |->
     IF <<g>> \in DOMAIN data THEN data[<<g>>]
     ELSE IF <<"likes", "$", g>> \in DOMAIN data THEN data[<<"likes", "$", g>>]
     ELSE e[g]]
MatchingElems(arr, c) == {j \in 1..Len(arr) : Sel(arr[j], c)}
PatchedElement ==
  /\ Fulfilled({"patchSubdocument", "patchSubdocumentById"})
  /\ ParentOf(last.args.id) # 0
  /\ MatchingElems(last.before[ParentOf(last.args.id)].likes, ElemCondOf(last)) # {}
C12_PatchOnlyFirstMatch ==
  PatchedElement =>
    LET p == ParentOf(last.args.id)
        arr == last.before[p].likes
        hits == MatchingElems(arr, ElemCondOf(last))
        first == CHOOSE j \in hits : \A k \in hits : j <= k
    IN /\ OthersKept(p)
       /\ collection[p]._id = last.before[p]._id
       /\ Len(collection[p].likes) = Len(arr)
       /\ \A j \in 1..Len(arr) :
            collection[p].likes[j] = IF j = first THEN Merged(arr[j], last.args.data) ELSE arr[j]

\* C13 (as claimed): removeSubdocument / removeSubdocumentById on an
\* existing parent removes every element matching the element query, keeps
\* every other element in place and in order, and returns the updated parent.
PullCondOf(c) ==
  IF c.op = "removeSubdocument" THEN c.args.query ELSE [_id |-> verifyId(c.args.embedId).id]
PulledFrom ==
  /\ Fulfilled({"removeSubdocument", "removeSubdocumentById"})
  /\ ParentOf(last.args.id) # 0
Remaining(arr, c) == SelectSeq(arr, LAMBDA e : ~Sel(e, c))
C13_RemoveAllMatching ==
  PulledFrom =>
    LET p == ParentOf(last.args.id)
    IN /\ OthersKept(p)
       /\ collection[p].likes = Remaining(last.before[p].likes, PullCondOf(last))
       /\ last.result = collection[p]

\* C13 (amended): as above, and the call returns the updated parent unless
\* the caller's options set returnOriginal, when it returns the parent as it
\* was before the removal.
C13_RemoveAllMatching_Amended ==
  PulledFrom =>
    LET p == ParentOf(last.args.id)
    IN /\ OthersKept(p)
       /\ collection[p].likes = Remaining(last.before[p].likes, PullCondOf(last))
       /\ last.result = IF AsksOriginal(last.args.options) THEN last.before[p] ELSE collection[p]

C13_Witness ==
  /\ PulledFrom
  /\ last.op = "removeSubdocument"
  /\ ~AsksOriginal(last.args.options)
  /\ Len(last.before[1].likes) = 3
  /\ Len(collection[1].likes) = 1
  /\ last.result.likes = <<[_id |-> Oid(4), name |-> "music"]>>

\* C14 (as claimed): addSubdocument with an identifier, the array field and a
\* value (any primitive, or a structured value) appends exactly one element
\* to the array of an existing parent, the prior elements unchanged: the
\* primitive itself, or the structured value with a fresh identifier that no
\* prior element carries; it returns the updated parent, or null when the
\* parent does not exist.
AddedTo ==
  /\ last.op = "addSubdocument" /\ last.connected
  /\ verifyId(last.args.id).ok /\ last.args.id # MissingId
  /\ last.args.embeddedField = "likes"
  /\ last.args.data # Undefined
ElemIds(arr) == {arr[j]._id : j \in {i \in 1..Len(arr) : "_id" \in DOMAIN arr[i]}}
C14_AddAppendsOne ==
  AddedTo =>
    LET p == ParentOf(last.args.id)
        d == last.args.data
    IN /\ last.status = "ok"
       /\ p = 0 => last.result = Null /\ collection = last.before
       /\ p # 0 =>
            LET arr == last.before[p].likes
                new == collection[p].likes
            IN /\ OthersKept(p)
               /\ Len(new) = Len(arr) + 1
               /\ SubSeq(new, 1, Len(arr)) = arr
               /\ IF IsObject(d)
                  THEN /\ DOMAIN new[Len(new)] = (DOMAIN d) \cup {"_id"}
                       /\ \A g \in DOMAIN d : new[Len(new)][g] = d[g]
                       /\ new[Len(new)]._id \notin ElemIds(arr)
                  ELSE new[Len(new)] = d
               /\ last.result = collection[p]

\* C15: update / updateById hand the caller's update to the store with every
\* operator kept: the operators are the caller's plus $set, every operator
\* but $set has the caller's operand, and $set is the caller's with
\* lastModifiedAt forced to the current time; the store applies them to the
\* one Record selected.
Updated == Fulfilled({"update", "updateById"})
C15_UpdateKeepsOperators ==
  Updated =>
    LET u == last.args.update
        sent == last.sent
        set == IF "$set" \in DOMAIN u THEN u["$set"] ELSE EmptyObj
    IN /\ DOMAIN sent = (DOMAIN u) \cup {"$set"}
       /\ \A op \in (DOMAIN u) \ {"$set"} : sent[op] = u[op]
       /\ DOMAIN sent["$set"] = (DOMAIN set) \cup {<<modificationDateField>>}
       /\ sent["$set"][<<modificationDateField>>] = last.t
       /\ \A k \in (DOMAIN set) \ {<<modificationDateField>>} : sent["$set"][k] = set[k]
       /\ last.reqs = <<"findOneAndUpdate">>
       /\ \/ /\ collection = last.before
             /\ \A i \in 1..Len(last.before) : ~Matches(last.before[i], FilterOf(last))
          \/ \E i \in 1..Len(last.before) :
               /\ Matches(last.before[i], FilterOf(last))
               /\ OthersKept(i)
               /\ \A k \in DOMAIN Operand(u, "$unset") :
                    k \notin DOMAIN set => k[1] \notin DOMAIN collection[i]
               /\ \A k \in (DOMAIN set) \ {<<modificationDateField>>} :
                    collection[i][k[1]] = set[k]
               /\ collection[i][modificationDateField] = last.t

C15_Witness ==
  /\ Updated
  /\ {"$set", "$unset"} \subseteq DOMAIN last.args.update
  /\ last.t = 2
  /\ \E i \in 1..Len(collection) :
       /\ collection[i] # last.before[i]
       /\ "name" \notin DOMAIN collection[i]
       /\ collection[i].type = "ugly"
       /\ collection[i][modificationDateField] = 2

\* C16 (as claimed): update with only an $unset of field f on an existing
\* Record removes f and leaves every other field of the Record, the
\* identifier included, unchanged.
UnsetOnly ==
  /\ Updated
  /\ DOMAIN last.args.update = {"$unset"}
  /\ \E i \in 1..Len(last.before) : Matches(last.before[i], FilterOf(last))
UnsetFields == {k[1] : k \in DOMAIN last.args.update["$unset"]}
C16_UnsetLeavesOtherFields ==
  UnsetOnly =>
    \E i \in 1..Len(last.before) :
      /\ Matches(last.before[i], FilterOf(last))
      /\ OthersKept(i)
      /\ DOMAIN collection[i] \cap UnsetFields = {}
      /\ \A g \in (DOMAIN last.before[i]) \ UnsetFields :
           g \in DOMAIN collection[i] /\ collection[i][g] = last.before[i][g]

\* C16 (amended): update with only an $unset of field f on an existing Record
\* removes f and leaves every other field, the identifier included,
\* unchanged, except the last-modification timestamp, which is set to the
\* current time (added when the Record had none).
C16_UnsetLeavesOtherFields_Amended ==
  UnsetOnly =>
    \E i \in 1..Len(last.before) :
      /\ Matches(last.before[i], FilterOf(last))
      /\ OthersKept(i)
      /\ DOMAIN collection[i] =
           ((DOMAIN last.before[i]) \ UnsetFields) \cup {modificationDateField}
      /\ collection[i][modificationDateField] = last.t
      /\ \A g \in (DOMAIN last.before[i]) \ (UnsetFields \cup {modificationDateField}) :
           collection[i][g] = last.before[i][g]

C16_Witness ==
  /\ UnsetOnly
  /\ last.t = 2
  /\ \E i \in 1..Len(last.before) :
       /\ "name" \in DOMAIN last.before[i] /\ "name" \notin DOMAIN collection[i]
       /\ modificationDateField \in DOMAIN last.before[i]
       /\ last.before[i][modificationDateField] = 1
       /\ collection[i][modificationDateField] = 2
       /\ collection[i]._id = last.before[i]._id
       /\ collection[i].likes = last.before[i].likes

\* C17 (as claimed): patch / patchById on an existing Record R with partial
\* fields F persists and returns R with the fields of F that are not
\* undefined assigned, the undefined ones left as R has them, no other field
\* removed or changed, and the last-modification timestamp set.
Patched ==
  /\ Fulfilled({"patch", "patchById"})
  /\ \E i \in 1..Len(last.before) : Matches(last.before[i], FilterOf(last))
PatchOf(R, F, t) ==
  [g \in (DOMAIN R) \cup {k[1] : k \in {j \in DOMAIN F : F[j] # UNDEFINED}}
         \cup {modificationDateField} |->
     IF g = modificationDateField THEN t
     ELSE IF <<g>> \in DOMAIN F /\ F[<<g>>] # UNDEFINED THEN F[<<g>>]
     ELSE R[g]]
C17_PatchMerges ==
  Patched =>
    \E i \in 1..Len(last.before) :
      /\ Matches(last.before[i], FilterOf(last))
      /\ OthersKept(i)
      /\ collection[i] = PatchOf(last.before[i], last.args.data, last.t)
      /\ last.result = collection[i]

\* C17 (amended): as above, and the call returns the patched Record unless
\* the caller's options set returnOriginal, when it returns R.
C17_PatchMerges_Amended ==
  Patched =>
    \E i \in 1..Len(last.before) :
      /\ Matches(last.before[i], FilterOf(last))
      /\ OthersKept(i)
      /\ collection[i] = PatchOf(last.before[i], last.args.data, last.t)
      /\ last.result = IF AsksOriginal(last.args.options) THEN last.before[i] ELSE collection[i]

C17_Witness ==
  /\ Patched
  /\ ~AsksOriginal(last.args.options)
  /\ \E k \in DOMAIN last.args.data : last.args.data[k] = UNDEFINED /\ k = <<"type">>
  /\ \E i \in 1..Len(last.before) :
       /\ "type" \in DOMAIN last.before[i] /\ last.before[i].type = "ugly"
       /\ collection[i] # last.before[i]
       /\ collection[i].type = "ugly"
       /\ collection[i].name = "Tom"
       /\ last.result = collection[i]

\* C18 (as claimed): remove / removeById with a filter matching an existing
\* Record R returns R as it was, a get with the same filter then returns
\* null, the collection holds one Record fewer and every other Record is
\* unchanged.
Removed ==
  /\ Fulfilled({"remove", "removeById"})
  /\ \E i \in 1..Len(last.before) : Matches(last.before[i], FilterOf(last))
RemovedOne ==
  \E i \in 1..Len(last.before) :
    /\ Matches(last.before[i], FilterOf(last))
    /\ last.result = last.before[i]
    /\ Len(collection) = Len(last.before) - 1
    /\ collection = SubSeq(last.before, 1, i - 1) \o SubSeq(last.before, i + 1, Len(last.before))
C18_RemoveReturnsAndDeletes ==
  Removed =>
    /\ RemovedOne
    /\ \A i \in 1..Len(last.before) :
         Matches(last.before[i], FilterOf(last)) => last.result = last.before[i]
    /\ Generic_get(TRUE, collection, FilterOf(last), EmptyObj).result = Null

\* C18 (amended): remove / removeById with a filter matching existing
\* Records returns one of them as it was and deletes it, the collection
\* holds one Record fewer and every other Record is unchanged; when R is the
\* only Record the filter matches, R is the one returned and a get with the
\* same filter then returns null.
C18_RemoveReturnsAndDeletes_Amended ==
  Removed =>
    /\ RemovedOne
    /\ Cardinality(MatchingIdx(last.before, FilterOf(last))) = 1 =>
         /\ \A i \in 1..Len(last.before) :
              Matches(last.before[i], FilterOf(last)) => last.result = last.before[i]
         /\ Generic_get(TRUE, collection, FilterOf(last), EmptyObj).result = Null

C18_Witness ==
  /\ Removed
  /\ last.op = "removeById"
  /\ last.args.id = Hex(2)
  /\ last.result._id = Oid(2)
  /\ Len(last.before) = 3
  /\ Len(collection) = 2
  /\ Generic_get(TRUE, collection, FilterOf(last), EmptyObj).result = Null

\* C19: get, getById, update, updateById, patch, patchById, remove and
\* removeById, called on a connected client with a filter or a valid
\* identifier that matches no Record, are fulfilled with null and leave the
\* collection unchanged.
ByFilterOrId ==
  {"get", "getById", "update", "updateById", "patch", "patchById", "remove", "removeById"}
NothingMatched ==
  /\ last.op \in ByFilterOrId
  /\ last.connected
  /\ "id" \in DOMAIN last.args => verifyId(last.args.id).ok
  /\ \A i \in 1..Len(last.before) : ~Matches(last.before[i], FilterOf(last))
Created == last.op = "create" /\ last.connected
C20_CreateInsertsOne ==
  Created =>
    LET d == last.args.document
        n == Len(last.before)
    IN /\ last.status = "ok"
       /\ Len(collection) = n + 1
       /\ SubSeq(collection, 1, n) = last.before
       /\ last.result = collection[n + 1]
       /\ DOMAIN collection[n + 1] = (DOMAIN d) \cup {"_id", creationDateField}
       /\ \A g \in (DOMAIN d) \ {creationDateField} : collection[n + 1][g] = d[g]
       /\ collection[n + 1][creationDateField] = last.t
       /\ \A i \in 1..n : last.before[i]._id # collection[n + 1]._id

C20_Witness ==
  /\ Created
  /\ Len(collection) = 4
  /\ collection[4].name = "bar"
  /\ collection[4][creationDateField] = 2
  /\ collection[3].name = "foo"

\* C21 (as claimed): listSubdocuments on a connected client, with a valid
\* identifier and a well-formed element filter, is fulfilled and changes
\* nothing; it returns null when the parent Record does not exist, and
\* otherwise the elements of the array field that satisfy the filter, in
\* order: the empty sequence, not null, when no element satisfies it.
Listed ==
  /\ last.op = "listSubdocuments"
  /\ last.connected
  /\ verifyId(last.args.id).ok
  /\ DOMAIN last.args.query # {} => last.args.query.var = last.args.as
Satisfying(arr, cond) ==
  SelectSeq(arr, LAMBDA e : \/ DOMAIN cond = {}
                            \/ cond.field \in DOMAIN e /\ e[cond.field] = cond.value)
Got == last.op = "getSubdocument" /\ last.connected /\ verifyId(last.args.id).ok
C22_GetFirstMatching ==
  Got =>
    LET p == ParentOf(last.args.id)
        hits == IF p = 0 THEN {} ELSE MatchingElems(last.before[p].likes, last.args.query)
    IN /\ last.status = "ok"
       /\ collection = last.before
       /\ last.reqs = <<"findOne">>
       /\ last.result = IF hits = {} THEN Null
                        ELSE last.before[p].likes[CHOOSE j \in hits : \A k \in hits : j <= k]

C22_Witness ==
  /\ Got
  /\ ParentOf(last.args.id) = 1
  /\ Cardinality(MatchingElems(last.before[1].likes, last.args.query)) = 2
  /\ last.result = [_id |-> Oid(3), name |-> "games"]

\* C23: exists on a connected client changes nothing; called without a
\* filter or with the empty filter it is rejected with an AssertionError
\* before any store request; with a non-empty filter it is fulfilled with
\* true if at least one Record matches the filter and with false otherwise.
Asked == last.op = "exists" /\ last.connected
C23_Exists ==
  Asked =>
    /\ collection = last.before
    /\ IF <<UNDEFINED>> \in DOMAIN last.args.query \/ DOMAIN last.args.query = {}
       THEN last.status = "error" /\ last.err = "AssertionError" /\ last.reqs = <<>>
       ELSE /\ last.status = "ok"
            /\ last.result =
                 [bool |-> \E i \in 1..Len(last.before) : Matches(last.before[i], last.args.query)]

C23_Witness ==
  /\ Asked
  /\ <<UNDEFINED>> \in DOMAIN last.args.query
  /\ last.err = "AssertionError"
  /\ ops = 2

\* C24 (as claimed): addSubdocument, patchSubdocument, patchSubdocumentById,
\* removeSubdocument and removeSubdocumentById, called on a connected client
\* without a required argument (the parent identifier, the array field name,
\* the value, the element query or the element identifier), every identifier
\* that is given being valid, are rejected with an AssertionError before any
\* store request and leave the collection unchanged.
SubMutations ==
  {"addSubdocument", "patchSubdocument", "patchSubdocumentById", "removeSubdocument",
   "removeSubdocumentById"}
MissingArgument ==
  /\ last.op \in SubMutations
  /\ last.connected
  /\ last.args.id # BadId
  /\ "embedId" \in DOMAIN last.args => last.args.embedId # BadId
  /\ \/ last.args.id = MissingId
     \/ last.args.embeddedField = ""
     \/ last.op = "addSubdocument" /\ last.args.data = Undefined
     \/ last.op = "removeSubdocument" /\ last.args.query = Undefined
     \/ "embedId" \in DOMAIN last.args /\ last.args.embedId = MissingId
C24_MissingArgumentRejected ==
  MissingArgument =>
    /\ last.status = "error"
    /\ last.err = "AssertionError"
    /\ last.reqs = <<>>
    /\ collection = last.before


\* C25 (as claimed): patchSubdocument hands the store the element query with
\* every key k not starting with "<arrayField>." renamed to "<arrayField>.k"
\* and the partial fields with every key k not starting with
\* "<arrayField>.$." renamed to "<arrayField>.$.k", each with its value; keys
\* already in that shape keep their name and value, no key or value is lost,
\* renaming the renamed mapping changes nothing, and the query carries the
\* parent identifier under _id (the Record returned is the parent).
Rewrote == last.op = "patchSubdocument" /\ verifyId(last.args.id).ok
Rooted(k, f) == Len(k) >= 2 /\ k[1] = f
RootedAtPos(k, f) == Len(k) >= 3 /\ k[1] = f /\ k[2] = "$"
\* the keys of q that come in both shapes, by their rooted name
Clashes(q, prefix) == {k \in DOMAIN q : \E j \in DOMAIN q : j # k /\ prefix \o j = k}
ReturnsParent ==
  (last.connected /\ last.status = "ok" /\ last.result # Null)
    => last.result._id = verifyId(last.args.id).id
SentFields(rd) ==
  (last.connected /\ last.status = "ok")
    => last.sent = ("$set" :> ((<<modificationDateField>> :> last.t) @@ rd))
C25_RewriteKeys ==
  Rewrote =>
    LET f == last.args.embeddedField
        q == last.args.query
        d == last.args.data
        rq == RewriteQuery(q, f)
        rd == RewriteData(d, f)
    IN /\ \A k \in DOMAIN q :
            IF Rooted(k, f) THEN k \in DOMAIN rq /\ rq[k] = q[k]
            ELSE <<f>> \o k \in DOMAIN rq /\ rq[<<f>> \o k] = q[k]
       /\ \A k \in DOMAIN d :
            IF RootedAtPos(k, f) THEN k \in DOMAIN rd /\ rd[k] = d[k]
            ELSE <<f, "$">> \o k \in DOMAIN rd /\ rd[<<f, "$">> \o k] = d[k]
       /\ Cardinality(DOMAIN rq) = Cardinality(DOMAIN q)
       /\ Cardinality(DOMAIN rd) = Cardinality(DOMAIN d)
       /\ RewriteQuery(rq, f) = rq
       /\ RewriteData(rd, f) = rd
       /\ SentFields(rd)
       /\ ReturnsParent

\* C25 (amended): as above, except that a key that comes in both shapes
\* ("k" and "<arrayField>.k") ends up once, under the rooted name with the
\* value of the unrooted key: the value that came under the rooted name is
\* dropped and the mapping has one key fewer.
C25_RewriteKeys_Amended ==
  Rewrote =>
    LET f == last.args.embeddedField
        q == last.args.query
        d == last.args.data
        rq == RewriteQuery(q, f)
        rd == RewriteData(d, f)
    IN /\ \A k \in DOMAIN q :
            IF Rooted(k, f)
            THEN k \in DOMAIN rq /\ (k \notin Clashes(q, <<f>>) => rq[k] = q[k])
            ELSE <<f>> \o k \in DOMAIN rq /\ rq[<<f>> \o k] = q[k]
       /\ \A k \in DOMAIN d :
            IF RootedAtPos(k, f)
            THEN k \in DOMAIN rd /\ (k \notin Clashes(d, <<f, "$">>) => rd[k] = d[k])
            ELSE <<f, "$">> \o k \in DOMAIN rd /\ rd[<<f, "$">> \o k] = d[k]
       /\ \A k \in DOMAIN rq : Rooted(k, f)
       /\ \A k \in DOMAIN rd : RootedAtPos(k, f)
       /\ Cardinality(DOMAIN rq) = Cardinality(DOMAIN q) - Cardinality(Clashes(q, <<f>>))
       /\ Cardinality(DOMAIN rd) = Cardinality(DOMAIN d) - Cardinality(Clashes(d, <<f, "$">>))
       /\ RewriteQuery(rq, f) = rq
       /\ RewriteData(rd, f) = rd
       /\ SentFields(rd)
       /\ ReturnsParent

\* a rooted query key and partial fields in both shapes at work
C25_Witness ==
  /\ Rewrote
  /\ last.status = "ok"
  /\ <<"likes", "name">> \in DOMAIN last.args.query
  /\ DOMAIN last.args.query = {<<"likes", "name">>}
  /\ <<"rank">> \in DOMAIN last.args.data
  /\ collection[1].likes[1] = [_id |-> Oid(3), name |-> "fun", rank |-> "top"]

\* C26: the requests of an audited call are issued one after the other in a
\* fixed order: update and patch read the pre-image, then mutate, then write
\* the audit document; create and remove mutate, then write the audit
\* document.  A call waiting for its mutation has issued no audit write, and
\* no call writes its audit document before its mutation.
Expected(c) ==
  IF c.op \in {"update", "patch"} THEN <<"findOne", "findOneAndUpdate", "audit.insertOne">>
  ELSE IF c.op = "create" THEN <<"insertOne", "audit.insertOne">>
  ELSE <<"findOneAndDelete", "audit.insertOne">>
C26_RequestOrder ==
  \A p \in Procs :
    LET c == call[p]
        e == Expected(c)
    IN /\ Len(c.reqs) <= Len(e)
       /\ c.reqs = SubSeq(e, 1, Len(c.reqs))
       /\ c.pc = "pre" => c.reqs = <<>>
       /\ c.pc = "mutate" => c.reqs = SubSeq(e, 1, Len(e) - 2)
       /\ c.pc = "audit" => c.reqs = SubSeq(e, 1, Len(e) - 1)
       /\ c.audited # <<>> => c.reqs = e

\* both callers have gone through their three requests, interleaved
C26_Witness ==
  /\ \A p \in Procs : Settled(p) /\ call[p].reqs = <<"findOne", "findOneAndUpdate", "audit.insertOne">>
  /\ call[1].audited = <<2>>
  /\ call[2].audited = <<1>>
  /\ call[1].post = call[2].pre

\* C27: the layer neither detects nor corrects a mutation of the Record by
\* another writer between a call's pre-image read and its own mutation: the
\* call is fulfilled and its UPDATE audit carries as old the pre-image it
\* read, whatever the Record was when the mutation was applied.
C27_StalePreImageKept ==
  \A p \in Procs :
    (call[p].op \in {"update", "patch"} /\ call[p].audited # <<>>)
      => /\ call[p].status = "ok"
         /\ AuditOf(call[p]).operation = UPDATE
         /\ AuditOf(call[p]).old = call[p].oldDoc

\* caller 2 (filter by identifier, default options) read the Record, caller
\* 1 changed it, caller 2 mutated it: the old of caller 2's audit is not the
\* Record as it was just before caller 2's mutation
C27_Witness ==
  /\ Settled(2)
  /\ call[2].op \in {"update", "patch"}
  /\ call[2].audited # <<>>
  /\ call[2].pre # Null
  /\ call[2].pre._id = call[2].oldDoc._id
  /\ call[2].pre # call[2].oldDoc
  /\ call[1].post = call[2].pre
  /\ AuditOf(call[2]).old # call[2].pre

\* C28 (as claimed): in every UPDATE audit document the old and the new
\* image are images of the same Record: they carry the same _id.
C28_OldAndNewSameRecord ==
  \A i \in 1..Len(audits) :
    (audits[i].operation = UPDATE /\ audits[i].old # Null /\ audits[i].new # Null)
      => audits[i].old._id = audits[i].new._id

\* C29 (as claimed): the UPDATE audit documents of a Record are in the order
\* in which their mutations were applied and form an unbroken chain: the new
\* image of each is the old image of the next one for that Record.
NextFor(i, j) ==
  /\ i < j
  /\ audits[i].operation = UPDATE /\ audits[j].operation = UPDATE
  /\ audits[i].old # Null /\ audits[j].old # Null
  /\ audits[i].old._id = audits[j].old._id
  /\ \A k \in (i + 1)..(j - 1) :
       ~(audits[k].operation = UPDATE /\ audits[k].old # Null
         /\ audits[k].old._id = audits[i].old._id)
C29_AuditChain ==
  \A i, j \in 1..Len(audits) : NextFor(i, j) => audits[i].new = audits[j].old

\* C30 (as claimed): a fulfilled patchSubdocument on a connected client, with
\* a valid identifier and an element query written as for getSubdocument,
\* returns null exactly when getSubdocument with the same arguments does,
\* and every element it changes is the element getSubdocument returns, which
\* satisfies every condition of the query.
PatchedSub ==
  /\ Fulfilled({"patchSubdocument"})
  /\ last.connected
  /\ verifyId(last.args.id).ok
  /\ \A k \in DOMAIN last.args.query : Len(k) = 1
C30_PatchesWhatGetReturns ==
  PatchedSub =>
    LET p == ParentOf(last.args.id)
        cond == ElemCondOf(last)
        g == Generic_getSubdocument(TRUE, last.before, last.args.id,
                                    last.args.embeddedField, cond).result
    IN /\ (last.result = Null) <=> (g = Null)
       /\ p # 0 =>
            \A j \in 1..Len(last.before[p].likes) :
              collection[p].likes[j] # last.before[p].likes[j]
                => /\ last.before[p].likes[j] = g
                   /\ Sel(last.before[p].likes[j], cond)


====
